---- MODULE Spec2Model ----
(***************************************************************************)
(* Model of ResearchHelpFunctions (src/source/utils.py): the search        *)
(* fallback chain robust_search, the extraction chain fetch_full_text, the *)
(* word-budget functions rank_and_select_contexts / truncate_context and   *)
(* the per-section synthesis call sub_agent_fn.                            *)
(***************************************************************************)
EXTENDS Integers, Sequences, FiniteSets, TLC

VARIABLES
    pc,            \* position of the flow inside sub_agent_fn
    calls,         \* robust_search: the providers invoked and what each returned
    name,          \* role name closed over by create_sub_agents
    query,         \* argument of sub_agent_fn
    fnIdx,         \* robust_search: index into search_functions
    urls,          \* robust_search: accumulated urls / sub_agent_fn: urls
    events,        \* calls and sleeps performed so far, in order
    urlIdx,        \* sub_agent_fn: index of the url being extracted
    strategies,    \* fetch_full_text: strategies tried for the current url
    content,       \* sub_agent_fn: value returned by fetch_full_text
    contents,      \* sub_agent_fn: collected non-empty texts
    sites,         \* sub_agent_fn: urls of the collected texts
    fetches,       \* the calls of fetch_full_text so far: url and text returned
    ranked,        \* rank_and_select_contexts: (score, doc) list after sort
    full_context,  \* sub_agent_fn: output of rank_and_select_contexts
    safe_context,  \* sub_agent_fn: output of truncate_context
    again_context, \* truncate_context applied to its own output
    result,        \* value returned by sub_agent_fn
    raised,        \* the exception that left sub_agent_fn, "" when none did
    attempt,       \* search_duckduckgo: the loop variable, counted from 1
    clock,         \* what time.time() returns, in ticks
    last_brave_call_time, \* self._last_brave_call_time, in ticks
    now,           \* brave_search: the local now of each flow
    fpc,           \* position of each flow that calls brave_search
    running,       \* the flow the event loop is running, 0 when none
    ncalls,        \* calls of brave_search each flow has completed
    grants,        \* grants of the limiter and requests sent, in order
    sessions,           \* db.py: rows of table sessions, in insertion order
    research_queries,   \* db.py: rows of table research_queries
    research_structure, \* db.py: rows of table research_structure
    worker_results,     \* db.py: rows of table worker_results
    final_reports,      \* db.py: rows of table final_reports
    session_data        \* db.py: what the last call returned when it was get_session_data

vars == <<pc, calls, name, query, fnIdx, urls, events, urlIdx, strategies, content,
          contents, sites, fetches, ranked, full_context, safe_context, again_context,
          result, raised, attempt, clock, last_brave_call_time, now, fpc, running,
          ncalls, grants, sessions, research_queries, research_structure,
          worker_results, final_reports, session_data>>

\* the state of one synthesis call
agentVars == <<pc, calls, name, query, fnIdx, urls, events, urlIdx, strategies,
               content, contents, sites, fetches, ranked, full_context, safe_context,
               again_context, result, raised>>
\* the state of the rate limiter and of the flows that share it
limiterVars == <<clock, last_brave_call_time, now, fpc, running, ncalls, grants>>

\* the tables of ResearchDatabase and the value of get_session_data
dbVars == <<sessions, research_queries, research_structure, worker_results,
            final_reports, session_data>>

searchVars == <<fnIdx, urls, calls>>
fetchVars == <<urlIdx, strategies, content, contents, sites, fetches>>
contextVars == <<ranked, full_context, safe_context, again_context>>

-----------------------------------------------------------------------------
(* Bounds of the model *)

\* longest batch of urls one provider returns
MaxBatch == 3
\* number of documents handed to rank_and_select_contexts on its own
MaxDocs == 3
\* ticks of the clock in 1.0 second
TicksPerSecond == 2
\* the clock stops ticking on its own at MaxClock
MaxClock == 6
\* calls of brave_search one flow makes
MaxCalls == 2
\* flows that share one ResearchHelpFunctions instance
NumFlows == 2
\* sessions created in one database
MaxSessions == 2
\* rows saved in one table
MaxRows == 2

-----------------------------------------------------------------------------
(* URLs.  A url is a sequence of symbols: "h" is the scheme "http://" or   *)
(* "https://", "A" is the text "arxiv.org/abs/", "x" is some other host    *)
(* and path, "d" is a digit, "l" a letter, "." a dot and "v" the letter v. *)
(* NonStr is an element of a provider's batch that is not a string (a JSON *)
(* null or number in the provider's payload).                              *)

NonStr == <<"NonStr">>
UrlA == <<"h", "x", "a">>
ArxivGood == <<"h", "A", "d", "d", "d", "d", ".", "d", "d", "d", "d", "d", "v", "d">>
ArxivMalformed == <<"h", "A", "l", "l", "l", "l", "l", ".", "d", "d", "d", "d", "d">>

StringUrls == {UrlA, ArxivGood, ArxivMalformed}

\* re.compile(r"https?://arxiv\.org/abs/\d{4}\.\d{5}(v\d+)?").match(url):
\* anchored at the start of url only; the optional group and whatever
\* follows the five digits do not affect the outcome.
ARXIV_VALID_REGEX(url) ==
    /\ Len(url) >= 12
    /\ url[1] = "h"
    /\ url[2] = "A"
    /\ \A i \in 3..6 : url[i] = "d"
    /\ url[7] = "."
    /\ \A i \in 8..12 : url[i] = "d"

\* "arxiv.org/abs/" in url
ContainsAbs(url) == \E i \in 1..Len(url) : url[i] = "A"

\* sequences over S of length at most n
RECURSIVE SeqsUpTo(_, _)
SeqsUpTo(S, n) ==
    IF n = 0 THEN {<<>>}
    ELSE LET shorter == SeqsUpTo(S, n - 1)
         IN shorter \cup {Append(s, x) : s \in {t \in shorter : Len(t) = n - 1}, x \in S}

Batches(S) == SeqsUpTo(S, MaxBatch)

-----------------------------------------------------------------------------
(* The five search providers.  Each is a function of the response of its   *)
(* external service and returns [failed, urls]: failed is TRUE when the    *)
(* provider's except branch ran (it then printed and returned []).         *)

\* a result entry without a usable "url" value
Absent == <<>>

Returned(failed, list) == [failed |-> failed, urls |-> list]

\* responses of a JSON service: the request or the decoding raised
\* ("error"), the payload lacks the expected field ("nofield"), or it
\* holds a list of entries ("ok")
JsonResponses(S) ==
    {[kind |-> k, items |-> <<>>] : k \in {"error", "nofield"}}
        \cup {[kind |-> "ok", items |-> b] : b \in Batches(S)}

\* items[i] is r.get("url") of the i-th result, Absent when it is missing,
\* null or empty
BraveResponses == JsonResponses(StringUrls \cup {Absent})

\* lines 90-101
brave_search(resp) ==
    CASE resp.kind = "error" -> Returned(TRUE, <<>>)
      [] resp.kind = "nofield" -> Returned(FALSE, <<>>)
      [] OTHER -> Returned(FALSE, SelectSeq(resp.items, LAMBDA u : u # Absent))

\* an <entry> of the arXiv feed: its <id> rewritten to /abs/, and whether
\* the title shares a keyword with the query
ArxivEntries == [url : StringUrls, relevant : BOOLEAN]

ArxivResponses ==
    {[kind |-> "error", items |-> <<>>]}
        \cup {[kind |-> "ok", items |-> b] : b \in Batches(ArxivEntries)}

RECURSIVE ArxivLinks(_)
ArxivLinks(entries) ==
    IF entries = <<>> THEN <<>>
    ELSE LET e == Head(entries)
         IN (IF ARXIV_VALID_REGEX(e.url) /\ e.relevant THEN <<e.url>> ELSE <<>>)
                \o ArxivLinks(Tail(entries))

search_arvix(resp) ==
    IF resp.kind = "error" THEN Returned(TRUE, <<>>)
    ELSE Returned(FALSE, ArxivLinks(resp.items))

\* items[i] is paper["url"]: Absent when the paper has no "url" key, NonStr
\* when the key holds null; a payload without "data" is
\* data.get("data", []) = []
ScholarResponses == JsonResponses(StringUrls \cup {NonStr, Absent})

semantic_search_scholar(resp) ==
    CASE resp.kind = "error" -> Returned(TRUE, <<>>)
      [] resp.kind = "nofield" -> Returned(FALSE, <<>>)
      [] OTHER -> Returned(FALSE, SelectSeq(resp.items, LAMBDA u : u # Absent))

\* default of the parameter retries
retries == 3

\* the first fails attempts raise; the next one, if any, yields items
\* (r['href'] of the results that have an 'href')
DuckResponses ==
    {[fails |-> f, items |-> b] : f \in 0..retries, b \in Batches(StringUrls)}

\* number of passes through the for loop
DuckAttempts(resp) == IF resp.fails >= retries THEN retries ELSE resp.fails + 1

search_duckduckgo(resp) ==
    IF resp.fails >= retries THEN Returned(TRUE, <<>>)
    ELSE Returned(FALSE, resp.items)

GoogleResponses ==
    {[kind |-> "error", items |-> <<>>]}
        \cup {[kind |-> "ok", items |-> b] : b \in Batches(StringUrls)}

search_google(resp) ==
    IF resp.kind = "error" THEN Returned(TRUE, <<>>)
    ELSE Returned(FALSE, resp.items)

-----------------------------------------------------------------------------
(* robust_search *)

\* order of the list search_functions
search_functions ==
    <<"brave_search", "search_arvix", "semantic_search_scholar",
      "search_duckduckgo", "search_google">>

\* the inner for loop (lines 173-177): appends to acc the urls of new_urls
\* that pass the check; a non-string element makes the "in" test raise,
\* which leaves the loop with what was appended so far
RECURSIVE FilterLoop(_, _)
FilterLoop(acc, new_urls) ==
    IF new_urls = <<>> THEN [urls |-> acc, exc |-> FALSE]
    ELSE LET url == Head(new_urls)
         IN IF url = NonStr THEN [urls |-> acc, exc |-> TRUE]
            ELSE IF ContainsAbs(url) /\ ~ARXIV_VALID_REGEX(url)
                 THEN FilterLoop(acc, Tail(new_urls))
                 ELSE FilterLoop(Append(acc, url), Tail(new_urls))

\* one pass of the outer for loop (lines 170-182) over the accumulated
\* urls acc, for a search function whose call returned ret: the urls
\* afterwards, whether the except branch of line 181 ran, and whether the
\* break of line 180 was taken
Iteration(acc, ret) ==
    LET r == FilterLoop(acc, ret.urls)
    IN [urls |-> r.urls, exc |-> r.exc, stop |-> ~r.exc /\ r.urls # <<>>]

\* what search_functions[i] may return
Returns(i) ==
    CASE i = 1 -> {brave_search(resp) : resp \in BraveResponses}
      [] i = 2 -> {search_arvix(resp) : resp \in ArxivResponses}
      [] i = 3 -> {semantic_search_scholar(resp) : resp \in ScholarResponses}
      [] i = 4 -> {search_duckduckgo(resp) : resp \in DuckResponses}
      [] OTHER -> {search_google(resp) : resp \in GoogleResponses}

\* the values robust_search may return when its loop is at
\* search_functions[i] with the accumulated urls acc
RECURSIVE robust_search(_, _)
robust_search(i, acc) ==
    IF i > Len(search_functions) THEN {acc}
    ELSE UNION {LET it == Iteration(acc, ret)
                IN IF it.stop THEN {it.urls} ELSE robust_search(i + 1, it.urls)
                : ret \in Returns(i)}

\* robust_search step by step: the pass for search_functions[i]
SearchStep(i, ret) ==
    LET it == Iteration(urls, ret)
    IN /\ pc = "search"
       /\ fnIdx = i
       /\ calls' = Append(calls, [fn |-> search_functions[i], failed |-> ret.failed,
                                  new_urls |-> ret.urls, exc |-> it.exc])
       /\ urls' = it.urls
       /\ events' = events \o <<search_functions[i]>>
                        \o (IF it.exc THEN <<"Unexpected failure">> ELSE <<>>)
                        \o (IF it.stop THEN <<"time.sleep(5)">> ELSE <<>>)
       /\ IF it.stop \/ i = Len(search_functions)
          THEN pc' = "returned" /\ fnIdx' = fnIdx
          ELSE pc' = "search" /\ fnIdx' = i + 1
       /\ UNCHANGED <<dbVars, limiterVars, attempt, name, query, fetchVars, contextVars, result, raised>>

CallBrave == \E resp \in BraveResponses : SearchStep(1, brave_search(resp))
CallArxiv == \E resp \in ArxivResponses : SearchStep(2, search_arvix(resp))
CallScholar == \E resp \in ScholarResponses : SearchStep(3, semantic_search_scholar(resp))
CallDuckDuckGo == \E resp \in DuckResponses : SearchStep(4, search_duckduckgo(resp))
CallGoogle == \E resp \in GoogleResponses : SearchStep(5, search_google(resp))

-----------------------------------------------------------------------------
(* Texts.  A text is a sequence of runs of words: the run                  *)
(* [sep, doc, lo, hi] is the words lo..hi of document doc, each preceded   *)
(* by the whitespace sep ("" before the first word of a text).  Adjacent   *)
(* runs that continue each other with the same whitespace are one run, so  *)
(* equal strings are equal sequences.                                      *)

MAX_WORD_LIMIT == 9000

\* the document number of the word "...[TRUNCATED]"
TRUNCATED == 0

Run(sep, doc, lo, hi) == [sep |-> sep, doc |-> doc, lo |-> lo, hi |-> hi]

\* a text of n words of document doc, separated by sep
Page(doc, n, sep) ==
    IF n = 0 THEN <<>>
    ELSE IF n = 1 THEN <<Run("", doc, 1, 1)>>
    ELSE <<Run("", doc, 1, 1), Run(sep, doc, 2, n)>>

AddRun(text, r) ==
    IF /\ text # <<>>
       /\ text[Len(text)].sep = r.sep
       /\ text[Len(text)].doc = r.doc
       /\ text[Len(text)].hi + 1 = r.lo
    THEN [text EXCEPT ![Len(text)].hi = r.hi]
    ELSE Append(text, r)

RECURSIVE Concat(_, _)
Concat(text, more) ==
    IF more = <<>> THEN text ELSE Concat(AddRun(text, Head(more)), Tail(more))

\* str.split(): the words, whatever whitespace separates them, as runs
\* [doc, lo, hi]
AddWords(words, r) ==
    IF /\ words # <<>>
       /\ words[Len(words)].doc = r.doc
       /\ words[Len(words)].hi + 1 = r.lo
    THEN [words EXCEPT ![Len(words)].hi = r.hi]
    ELSE Append(words, [doc |-> r.doc, lo |-> r.lo, hi |-> r.hi])

RECURSIVE SplitFrom(_, _)
SplitFrom(words, text) ==
    IF text = <<>> THEN words ELSE SplitFrom(AddWords(words, Head(text)), Tail(text))

split(text) == SplitFrom(<<>>, text)

\* len(words)
RECURSIVE WordCount(_)
WordCount(words) ==
    IF words = <<>> THEN 0
    ELSE Head(words).hi - Head(words).lo + 1 + WordCount(Tail(words))

\* words[:k]
RECURSIVE FirstWords(_, _)
FirstWords(words, k) ==
    IF words = <<>> \/ k <= 0 THEN <<>>
    ELSE LET w == Head(words)
             n == w.hi - w.lo + 1
         IN IF n <= k THEN <<w>> \o FirstWords(Tail(words), k - n)
            ELSE <<[w EXCEPT !.hi = w.lo + k - 1]>>

\* sep.join(words)
JoinWords(sep, words) ==
    IF words = <<>> THEN <<>>
    ELSE LET w == Head(words)
         IN <<Run("", w.doc, w.lo, w.lo)>>
                \o (IF w.hi > w.lo THEN <<Run(sep, w.doc, w.lo + 1, w.hi)>> ELSE <<>>)
                \o [i \in 1..(Len(words) - 1) |->
                        Run(sep, words[i + 1].doc, words[i + 1].lo, words[i + 1].hi)]

\* sep.join(texts), for texts that each hold a word
RECURSIVE JoinTexts(_, _)
JoinTexts(sep, texts) ==
    IF texts = <<>> THEN <<>>
    ELSE IF Len(texts) = 1 THEN texts[1]
    ELSE LET front == JoinTexts(sep, SubSeq(texts, 1, Len(texts) - 1))
             last == texts[Len(texts)]
         IN Concat(front, <<[Head(last) EXCEPT !.sep = sep]>> \o Tail(last))

\* variant of truncate_context that slices one word short (words[:8999])
truncate_context_ShortSlice(text) ==
    LET words == split(text)
    IN JoinWords(" ", FirstWords(words, MAX_WORD_LIMIT - 1))
           \o (IF WordCount(words) > MAX_WORD_LIMIT
               THEN <<Run("\n\n", TRUNCATED, 1, 1)>>
               ELSE <<>>)

\* lines 220-222
truncate_context(text) ==
    LET words == split(text)
    IN JoinWords(" ", FirstWords(words, MAX_WORD_LIMIT))
           \o (IF WordCount(words) > MAX_WORD_LIMIT
               THEN <<Run("\n\n", TRUNCATED, 1, 1)>>
               ELSE <<>>)

\* variant of the sort that is not stable: an entry goes before the
\* entries of equal score
InsertRanked_TiesReversed(sorted, x) ==
    LET before == Cardinality({i \in 1..Len(sorted) : sorted[i].score > x.score})
    IN SubSeq(sorted, 1, before) \o <<x>> \o SubSeq(sorted, before + 1, Len(sorted))

\* ranked.append((score, doc)) for each doc, then
\* ranked.sort(reverse=True, key=lambda x: x[0]): descending by score,
\* entries of equal score in their original order
InsertRanked(sorted, x) ==
    LET before == Cardinality({i \in 1..Len(sorted) : sorted[i].score >= x.score})
    IN SubSeq(sorted, 1, before) \o <<x>> \o SubSeq(sorted, before + 1, Len(sorted))

RECURSIVE SortRanked(_, _)
SortRanked(sorted, pairs) ==
    IF pairs = <<>> THEN sorted
    ELSE SortRanked(InsertRanked(sorted, Head(pairs)), Tail(pairs))

Ranked(scores, docs) ==
    SortRanked(<<>>, [i \in 1..Len(docs) |-> [score |-> scores[i], doc |-> docs[i]]])

\* variant of the selection loop with continue in place of break: a
\* document that does not fit is skipped and later ones are still tried
RECURSIVE SelectLoop_Continue(_, _, _)
SelectLoop_Continue(rk, selected, total_words) ==
    IF rk = <<>> THEN selected
    ELSE LET doc == Head(rk).doc
             words == split(doc)
         IN IF total_words + WordCount(words) > MAX_WORD_LIMIT
            THEN SelectLoop_Continue(Tail(rk), selected, total_words)
            ELSE SelectLoop_Continue(Tail(rk), Append(selected, doc),
                                     total_words + WordCount(words))

\* variant of the selection loop that never leaves the selection empty:
\* the first ranked document is taken even when it does not fit
RECURSIVE SelectLoop_AtLeastOne(_, _, _)
SelectLoop_AtLeastOne(rk, selected, total_words) ==
    IF rk = <<>> THEN selected
    ELSE LET doc == Head(rk).doc
             words == split(doc)
         IN IF total_words + WordCount(words) > MAX_WORD_LIMIT /\ selected # <<>>
            THEN selected
            ELSE SelectLoop_AtLeastOne(Tail(rk), Append(selected, doc),
                                       total_words + WordCount(words))

\* the selection loop, lines 233-239
RECURSIVE SelectLoop(_, _, _)
SelectLoop(rk, selected, total_words) ==
    IF rk = <<>> THEN selected
    ELSE LET doc == Head(rk).doc
             words == split(doc)
         IN IF total_words + WordCount(words) > MAX_WORD_LIMIT
            THEN selected
            ELSE SelectLoop(Tail(rk), Append(selected, doc), total_words + WordCount(words))

\* variant of rank_and_select_contexts without the budget check: every
\* ranked document is joined
rank_and_select_contexts_NoBudget(scores, docs) ==
    JoinTexts("\n\n", [i \in 1..Len(docs) |-> Ranked(scores, docs)[i].doc])

\* lines 224-241, given the similarity scores of the docs
rank_and_select_contexts(scores, docs) ==
    JoinTexts("\n\n", SelectLoop(Ranked(scores, docs), <<>>, 0))


-----------------------------------------------------------------------------
(* sub_agent_fn: one synthesis call *)

Names == {"Introduction", "Conclusion"}
Queries == {"solar energy storage", "football"}

\* word counts of the pages the extraction strategies may yield
PageWordCounts == {4000, 6000, 9001}

\* similarity scores util.cos_sim may give a document
Scores == {1, 2}

\* urls[:2]
Attempted(list) == SubSeq(list, 1, IF Len(list) < 2 THEN Len(list) ELSE 2)

NoResult == [result |-> <<>>, sources |-> <<>>]

Outcome(kind, n) == [kind |-> kind, n |-> n]
TextOutcomes == {Outcome("text", n) : n \in PageWordCounts}

Tried(k, out) == [strategy |-> k, outcome |-> out.kind, n |-> out.n]

\* line 257
RobustSearch ==
    /\ pc = "start"
    /\ \E found \in robust_search(1, <<>>) : urls' = found
    /\ events' = Append(events, "robust_search")
    /\ pc' = "searched"
    /\ UNCHANGED <<dbVars, limiterVars, attempt, name, query, fnIdx, calls, fetchVars, contextVars, result, raised>>

\* variant of lines 258-259 without the early return: the call goes on to
\* the extraction loop with nothing to extract
ReturnNoLinks_NoReturn ==
    /\ pc = "searched"
    /\ urls = <<>>
    /\ contents' = <<>>
    /\ sites' = <<>>
    /\ pc' = "scraped"
    /\ UNCHANGED <<dbVars, limiterVars, attempt, name, query, searchVars, events, urlIdx, strategies, content,
                   fetches, contextVars, result, raised>>

\* lines 258-259
ReturnNoLinks ==
    /\ pc = "searched"
    /\ urls = <<>>
    /\ result' = [result |-> <<name, ": No useful links found for query: ", query>>,
                  sources |-> <<>>]
    /\ pc' = "done"
    /\ UNCHANGED <<dbVars, limiterVars, attempt, name, query, searchVars, events, fetchVars, contextVars, raised>>

\* lines 261-263
BeginExtraction ==
    /\ pc = "searched"
    /\ urls # <<>>
    /\ contents' = <<>>
    /\ sites' = <<>>
    /\ urlIdx' = 1
    /\ pc' = "fetch"
    /\ UNCHANGED <<dbVars, limiterVars, attempt, name, query, searchVars, events, strategies, content, fetches,
                   contextVars, result, raised>>

\* fetch_full_text returns text to line 265
FetchReturns(text) ==
    /\ content' = text
    /\ fetches' = Append(fetches, [url |-> urls[urlIdx], text |-> text])
    /\ pc' = "fetched"

\* variant of strategy 1 without the return of line 195: the text it
\* pulled is kept but strategy 2 runs all the same
Strategy1_NoReturn ==
    /\ pc = "fetch"
    /\ \E out \in {Outcome(k, 0) : k \in {"exception", "status_not_200", "empty"}}
                     \cup TextOutcomes :
          /\ strategies' = <<Tried(1, out)>>
          /\ content' = Page(urlIdx, out.n, "\n")
          /\ fetches' = fetches
          /\ pc' = "strategy2"
    /\ events' = Append(events, "fetch_full_text")
    /\ UNCHANGED <<dbVars, limiterVars, attempt, name, query, searchVars, urlIdx, contents, sites, contextVars,
                   result, raised>>

\* lines 186-197: the check of the url, then the direct fetch
Strategy1 ==
    /\ pc = "fetch"
    /\ LET url == urls[urlIdx]
       IN IF ContainsAbs(url) /\ ~ARXIV_VALID_REGEX(url)
          THEN /\ strategies' = <<>>
               /\ FetchReturns(<<>>)
          ELSE \E out \in {Outcome(k, 0) : k \in {"exception", "status_not_200", "empty"}}
                              \cup TextOutcomes :
                  /\ strategies' = <<Tried(1, out)>>
                  /\ IF out.kind \in {"exception", "status_not_200"}
                     THEN pc' = "strategy2" /\ content' = content /\ fetches' = fetches
                     ELSE FetchReturns(Page(urlIdx, out.n, "\n"))
    /\ events' = Append(events, "fetch_full_text")
    /\ UNCHANGED <<dbVars, limiterVars, attempt, name, query, searchVars, urlIdx, contents, sites, contextVars,
                   result, raised>>

\* variant of strategy 2 without its try: an exception of newspaper leaves
\* fetch_full_text
Strategy2_NoTry ==
    /\ pc = "strategy2"
    /\ \E out \in {Outcome(k, 0) : k \in {"exception", "empty"}} \cup TextOutcomes :
          /\ strategies' = Append(strategies, Tried(2, out))
          /\ IF out.kind = "exception"
             THEN /\ pc' = "raised"
                  /\ content' = content
                  /\ fetches' = fetches
                  /\ raised' = "newspaper"
             ELSE FetchReturns(Page(urlIdx, out.n, "\n\n")) /\ raised' = raised
    /\ UNCHANGED <<dbVars, limiterVars, attempt, name, query, searchVars, events, urlIdx, contents, sites,
                   contextVars, result>>

\* lines 199-205: newspaper Article
Strategy2 ==
    /\ pc = "strategy2"
    /\ \E out \in {Outcome(k, 0) : k \in {"exception", "empty"}} \cup TextOutcomes :
          /\ strategies' = Append(strategies, Tried(2, out))
          /\ IF out.kind = "exception"
             THEN pc' = "strategy3" /\ content' = content /\ fetches' = fetches
             ELSE FetchReturns(Page(urlIdx, out.n, "\n\n"))
    /\ UNCHANGED <<dbVars, limiterVars, attempt, name, query, searchVars, events, urlIdx, contents, sites,
                   contextVars, result, raised>>

\* lines 207-218: Playwright, and the final return ""
Strategy3 ==
    /\ pc = "strategy3"
    /\ \E out \in {Outcome(k, 0) : k \in {"exception", "empty"}} \cup TextOutcomes :
          /\ strategies' = Append(strategies, Tried(3, out))
          /\ FetchReturns(Page(urlIdx, out.n, "\n"))
    /\ UNCHANGED <<dbVars, limiterVars, attempt, name, query, searchVars, events, urlIdx, contents, sites,
                   contextVars, result, raised>>

\* variant of lines 266-268 with sites.append(url) outside the test of
\* content: every attempted url is recorded
CollectContent_EverySite ==
    /\ pc = "fetched"
    /\ contents' = IF content # <<>> THEN Append(contents, content) ELSE contents
    /\ sites' = Append(sites, urls[urlIdx])
    /\ events' = Append(events, "asyncio.sleep(3)")
    /\ IF urlIdx < Len(Attempted(urls))
       THEN urlIdx' = urlIdx + 1 /\ pc' = "fetch"
       ELSE urlIdx' = urlIdx /\ pc' = "scraped"
    /\ UNCHANGED <<dbVars, limiterVars, attempt, name, query, searchVars, strategies, content, fetches,
                   contextVars, result, raised>>

\* variant of lines 266-269 with the pause inside the test of content: no
\* pause follows an extraction that returned no text
CollectContent_PauseIfContent ==
    /\ pc = "fetched"
    /\ contents' = IF content # <<>> THEN Append(contents, content) ELSE contents
    /\ sites' = IF content # <<>> THEN Append(sites, urls[urlIdx]) ELSE sites
    /\ events' = IF content # <<>> THEN Append(events, "asyncio.sleep(3)") ELSE events
    /\ IF urlIdx < Len(Attempted(urls))
       THEN urlIdx' = urlIdx + 1 /\ pc' = "fetch"
       ELSE urlIdx' = urlIdx /\ pc' = "scraped"
    /\ UNCHANGED <<dbVars, limiterVars, attempt, name, query, searchVars, strategies, content, fetches,
                   contextVars, result, raised>>

\* lines 266-269, and the step of the for loop of line 263
CollectContent ==
    /\ pc = "fetched"
    /\ contents' = IF content # <<>> THEN Append(contents, content) ELSE contents
    /\ sites' = IF content # <<>> THEN Append(sites, urls[urlIdx]) ELSE sites
    /\ events' = Append(events, "asyncio.sleep(3)")
    /\ IF urlIdx < Len(Attempted(urls))
       THEN urlIdx' = urlIdx + 1 /\ pc' = "fetch"
       ELSE urlIdx' = urlIdx /\ pc' = "scraped"
    /\ UNCHANGED <<dbVars, limiterVars, attempt, name, query, searchVars, strategies, content, fetches,
                   contextVars, result, raised>>

\* lines 273-274
ReturnNoContent ==
    /\ pc = "scraped"
    /\ contents = <<>>
    /\ result' = [result |-> <<name, ": No content scraped for: ", query>>,
                  sources |-> sites]
    /\ pc' = "done"
    /\ UNCHANGED <<dbVars, limiterVars, attempt, name, query, searchVars, events, fetchVars, contextVars, raised>>

\* line 276; the embedder either scores every document or raises, and no
\* try surrounds the call
RankAndSelect ==
    /\ pc = "scraped"
    /\ contents # <<>>
    /\ events' = Append(events, "rank_and_select_contexts")
    /\ \/ \E scores \in [1..Len(contents) -> Scores] :
             /\ ranked' = Ranked(scores, contents)
             /\ full_context' = rank_and_select_contexts(scores, contents)
             /\ pc' = "ranked"
             /\ raised' = raised
       \/ /\ raised' = "embedder"
          /\ pc' = "raised"
          /\ UNCHANGED <<ranked, full_context>>
    /\ UNCHANGED <<dbVars, limiterVars, attempt, name, query, searchVars, fetchVars, safe_context, again_context,
                   result>>

\* line 277
Truncate ==
    /\ pc = "ranked"
    /\ safe_context' = truncate_context(full_context)
    /\ events' = Append(events, "truncate_context")
    /\ pc' = "truncated"
    /\ UNCHANGED <<dbVars, limiterVars, attempt, name, query, searchVars, fetchVars, ranked, full_context,
                   again_context, result, raised>>

\* variant of lines 279-286 without the try: a failure of the
\* text-generation call leaves sub_agent_fn
InvokeLLM_NoTry ==
    /\ pc = "truncated"
    /\ \E ok \in BOOLEAN :
          /\ result' = IF ok THEN [result |-> <<"response.content">>, sources |-> sites]
                       ELSE result
          /\ raised' = IF ok THEN raised ELSE "e"
          /\ pc' = IF ok THEN "done" ELSE "raised"
          /\ events' = events \o <<"llm.ainvoke">>
                           \o (IF ok THEN <<>> ELSE <<"llm.ainvoke raised e">>)
    /\ UNCHANGED <<dbVars, limiterVars, attempt, name, query, searchVars, fetchVars, contextVars>>

\* lines 279-286
InvokeLLM ==
    /\ pc = "truncated"
    /\ \E ok \in BOOLEAN :
          LET answer == IF ok THEN <<"response.content">>
                        ELSE <<name, ": LLM failed to respond due to: ", "e">>
          IN /\ result' = [result |-> answer, sources |-> sites]
             /\ events' = events \o <<"llm.ainvoke">>
                              \o (IF ok THEN <<>> ELSE <<"llm.ainvoke raised e">>)
    /\ pc' = "done"
    /\ UNCHANGED <<dbVars, limiterVars, attempt, name, query, searchVars, fetchVars, contextVars, raised>>

Blank ==
    /\ name \in Names
    /\ query \in Queries
    /\ fnIdx = 1
    /\ calls = <<>>
    /\ events = <<>>
    /\ urlIdx = 0
    /\ strategies = <<>>
    /\ content = <<>>
    /\ sites = <<>>
    /\ fetches = <<>>
    /\ ranked = <<>>
    /\ full_context = <<>>
    /\ safe_context = <<>>
    /\ again_context = <<>>
    /\ result = NoResult
    /\ raised = ""
    /\ attempt = 0

\* the value of session_data when the last call was not get_session_data
NoData == [session |-> <<>>]

\* the tables of a database that _setup has just created
EmptyDb ==
    /\ sessions = <<>>
    /\ research_queries = <<>>
    /\ research_structure = <<>>
    /\ worker_results = <<>>
    /\ final_reports = <<>>
    /\ session_data = NoData

\* line 42, and no flow calling brave_search
Idle ==
    /\ EmptyDb
    /\ clock = TicksPerSecond
    /\ last_brave_call_time = 0
    /\ now = <<>>
    /\ fpc = <<>>
    /\ running = 0
    /\ ncalls = <<>>
    /\ grants = <<>>

(* One synthesis call *)
Init == Blank /\ Idle /\ urls = <<>> /\ contents = <<>> /\ pc = "start"

Next ==
    \/ RobustSearch
    \/ ReturnNoLinks
    \/ BeginExtraction
    \/ Strategy1
    \/ Strategy2
    \/ Strategy3
    \/ CollectContent
    \/ ReturnNoContent
    \/ RankAndSelect
    \/ Truncate
    \/ InvokeLLM

Spec == Init /\ [][Next]_vars

(* One call of robust_search, provider by provider *)
InitSearch == Blank /\ Idle /\ urls = <<>> /\ contents = <<>> /\ pc = "search"

NextSearch ==
    \/ CallBrave
    \/ CallArxiv
    \/ CallScholar
    \/ CallDuckDuckGo
    \/ CallGoogle

SpecSearch == InitSearch /\ [][NextSearch]_vars

-----------------------------------------------------------------------------
(* rank_and_select_contexts and truncate_context on their own: contents   *)
(* holds up to MaxDocs documents, which are ranked and budgeted, or joined *)
(* as they are into one text, and the text is truncated twice.             *)

DocWordCounts == {500, 4000, 6000, 9001}
DocSeparators == {" ", "\n"}

DocLists ==
    UNION {{[i \in 1..k |-> Page(i, n[i], sep[i])] :
                n \in [1..k -> DocWordCounts], sep \in [1..k -> DocSeparators]}
           : k \in 0..MaxDocs}

InitContext ==
    /\ Blank
    /\ Idle
    /\ urls = <<>>
    /\ pc = "docs"
    /\ contents \in DocLists

RankDocs ==
    /\ pc = "docs"
    /\ \E scores \in [1..Len(contents) -> Scores] :
          /\ ranked' = Ranked(scores, contents)
          /\ full_context' = rank_and_select_contexts(scores, contents)
    /\ pc' = "ranked"
    /\ UNCHANGED <<dbVars, limiterVars, attempt, name, query, searchVars, events, fetchVars, safe_context,
                   again_context, result, raised>>

JoinDocs ==
    /\ pc = "docs"
    /\ \E sep \in {" ", "\n\n"} : full_context' = JoinTexts(sep, contents)
    /\ pc' = "joined"
    /\ UNCHANGED <<dbVars, limiterVars, attempt, name, query, searchVars, events, fetchVars, ranked, safe_context,
                   again_context, result, raised>>

TruncateText ==
    /\ pc \in {"ranked", "joined"}
    /\ safe_context' = truncate_context(full_context)
    /\ pc' = "truncated"
    /\ events' = Append(events, pc)
    /\ UNCHANGED <<dbVars, limiterVars, attempt, name, query, searchVars, fetchVars, ranked, full_context,
                   again_context, result, raised>>

TruncateAgain ==
    /\ pc = "truncated"
    /\ again_context' = truncate_context(safe_context)
    /\ pc' = "truncated again"
    /\ UNCHANGED <<dbVars, limiterVars, attempt, name, query, searchVars, events, fetchVars, ranked, full_context,
                   safe_context, result, raised>>

NextContext ==
    \/ RankDocs
    \/ JoinDocs
    \/ TruncateText
    \/ TruncateAgain

SpecContext == InitContext /\ [][NextContext]_vars

-----------------------------------------------------------------------------
(* ARXIV_VALID_REGEX on its own, at its three call sites: one candidate    *)
(* url, held in urls, is matched once.                                     *)

Symbols(x, n) == [i \in 1..n |-> x]

\* candidate urls: a prefix, an identifier of two groups around a dot, and
\* what follows the identifier
CandidateHeads == {<<"h", "A">>, <<"h", "x">>, <<"A">>, <<"x", "h", "A">>}
CandidateFirst == {Symbols("d", 3), Symbols("d", 4), Symbols("d", 5), Symbols("l", 5)}
CandidateSecond == {Symbols("d", 4), Symbols("d", 5), Symbols("d", 6), Symbols("l", 5)}
CandidateTails ==
    {<<>>, <<"v">>, <<"v", "d">>, <<"v", "d", "d">>, <<"l">>, <<"v", "l">>,
     <<"v", "d", "l">>}

Candidates ==
    {h \o a \o <<".">> \o b \o t :
        h \in CandidateHeads, a \in CandidateFirst, b \in CandidateSecond,
        t \in CandidateTails}

\* the value of ARXIV_VALID_REGEX.match(url)
Match(url) == IF ARXIV_VALID_REGEX(url) THEN "match" ELSE "None"

InitRegex ==
    /\ Blank
    /\ Idle
    /\ contents = <<>>
    /\ pc = "validate"
    /\ \E u \in Candidates : urls = <<u>>

Validated(site, kept) ==
    /\ pc = "validate"
    /\ events' = <<site, Match(urls[1]), IF kept THEN "kept" ELSE "dropped">>
    /\ pc' = "validated"
    /\ UNCHANGED <<dbVars, limiterVars, attempt, name, query, searchVars, fetchVars, contextVars, result, raised>>

\* line 123, for an entry whose title is relevant
MatchInSearchArvix ==
    Validated("search_arvix", ArxivLinks(<<[url |-> urls[1], relevant |-> TRUE]>>) # <<>>)

\* lines 174-177
MatchInRobustSearch ==
    Validated("robust_search", FilterLoop(<<>>, urls).urls # <<>>)

\* lines 186-188: kept when fetch_full_text goes on to its strategies
MatchInFetchFullText ==
    Validated("fetch_full_text", ~(ContainsAbs(urls[1]) /\ ~ARXIV_VALID_REGEX(urls[1])))

NextRegex ==
    \/ MatchInSearchArvix
    \/ MatchInRobustSearch
    \/ MatchInFetchFullText

SpecRegex == InitRegex /\ [][NextRegex]_vars

-----------------------------------------------------------------------------
(* search_duckduckgo attempt by attempt (lines 143-152).  calls holds the   *)
(* calls of ddgs.text made so far and urls the value returned.              *)

\* default of the parameter delay_range
delay_range == <<7, 15>>

InitDuck ==
    /\ Blank
    /\ Idle
    /\ urls = <<>>
    /\ contents = <<>>
    /\ pc = "ddg for"

\* line 144: the next value of range(retries)
DuckNextAttempt ==
    /\ pc = "ddg for"
    /\ attempt < retries
    /\ attempt' = attempt + 1
    /\ pc' = "ddg sleep"
    /\ UNCHANGED <<dbVars, limiterVars, name, query, searchVars, events, fetchVars,
                   contextVars, result, raised>>

\* line 146
DuckSleep ==
    /\ pc = "ddg sleep"
    /\ \E d \in delay_range[1]..delay_range[2] : events' = Append(events, "time.sleep")
    /\ pc' = "ddg text"
    /\ UNCHANGED <<dbVars, limiterVars, attempt, name, query, searchVars, fetchVars,
                   contextVars, result, raised>>

DuckCalled(failed, hrefs) ==
    /\ calls' = Append(calls, [fn |-> "ddgs.text", failed |-> failed,
                               new_urls |-> hrefs, exc |-> failed])
    /\ events' = Append(events, "ddgs.text")

\* variant of lines 147-151 whose return is an assignment: the loop goes
\* on after an attempt that did not fail
DuckText_NoReturn ==
    /\ pc = "ddg text"
    /\ \/ \E b \in Batches(StringUrls) :
             /\ DuckCalled(FALSE, b)
             /\ urls' = b
             /\ pc' = "ddg for"
       \/ /\ DuckCalled(TRUE, <<>>)
          /\ urls' = urls
          /\ pc' = "ddg for"
    /\ UNCHANGED <<dbVars, limiterVars, attempt, name, query, fnIdx, fetchVars, contextVars,
                   result, raised>>

\* lines 147-151: the attempt returns the hrefs, or fails and the loop
\* goes on
DuckText ==
    /\ pc = "ddg text"
    /\ \/ \E b \in Batches(StringUrls) :
             /\ DuckCalled(FALSE, b)
             /\ urls' = b
             /\ pc' = "returned"
       \/ /\ DuckCalled(TRUE, <<>>)
          /\ urls' = urls
          /\ pc' = "ddg for"
    /\ UNCHANGED <<dbVars, limiterVars, attempt, name, query, fnIdx, fetchVars, contextVars,
                   result, raised>>

\* line 152
DuckExhausted ==
    /\ pc = "ddg for"
    /\ attempt = retries
    /\ urls' = <<>>
    /\ pc' = "returned"
    /\ UNCHANGED <<dbVars, limiterVars, attempt, name, query, fnIdx, calls, events,
                   fetchVars, contextVars, result, raised>>

NextDuck ==
    \/ DuckNextAttempt
    \/ DuckSleep
    \/ DuckText
    \/ DuckExhausted

SpecDuck == InitDuck /\ [][NextDuck]_vars

-----------------------------------------------------------------------------
(* The rate limiter of brave_search (lines 75-79) and the flows that share  *)
(* it.  Time is counted in ticks, TicksPerSecond of them in the 1.0 second  *)
(* of lines 77-78; time.time() is taken to be non-decreasing.  A flow is a  *)
(* coroutine of sub_agent_fn: the event loop runs one flow at a time and    *)
(* takes another only where the running one awaits (lines 265, 269, 281).   *)
(* brave_search is called from robust_search at line 257 without an await,  *)
(* and time.sleep blocks the thread of the event loop.                      *)

Flows == DOMAIN fpc

Grant(f) == [flow |-> f, kind |-> "grant", at |-> clock]
Request(f) == [flow |-> f, kind |-> "request", at |-> clock]

InitLimiter(n) ==
    /\ Blank
    /\ EmptyDb
    /\ urls = <<>>
    /\ contents = <<>>
    /\ pc = "flows"
    /\ clock = TicksPerSecond
    /\ last_brave_call_time = 0
    /\ now = [f \in 1..n |-> 0]
    /\ fpc = [f \in 1..n |-> "start"]
    /\ running = 0
    /\ ncalls = [f \in 1..n |-> 0]
    /\ grants = <<>>

\* time passes, whatever the flows do
Tick ==
    /\ pc = "flows"
    /\ clock < MaxClock
    /\ clock' = clock + 1
    /\ UNCHANGED <<dbVars, agentVars, attempt, last_brave_call_time, now, fpc, running,
                   ncalls, grants>>

\* the event loop, running no flow, takes flow f where f stands
Schedule(f) ==
    /\ pc = "flows"
    /\ running = 0
    /\ ncalls[f] < MaxCalls
    /\ running' = f
    /\ UNCHANGED <<dbVars, agentVars, attempt, clock, last_brave_call_time, now, fpc, ncalls,
                   grants>>

\* lines 256-257 and 161-172: flow f runs up to its call of brave_search
FlowStart(f) ==
    /\ fpc[f] = "start"
    /\ running = f
    /\ fpc' = [fpc EXCEPT ![f] = "read"]
    /\ UNCHANGED <<dbVars, agentVars, attempt, clock, last_brave_call_time, now, running,
                   ncalls, grants>>

\* line 75
BraveRead(f) ==
    /\ fpc[f] = "read"
    /\ running = f
    /\ now' = [now EXCEPT ![f] = clock]
    /\ fpc' = [fpc EXCEPT ![f] = "sleep"]
    /\ UNCHANGED <<dbVars, agentVars, attempt, clock, last_brave_call_time, running, ncalls,
                   grants>>

\* variant of lines 76-78 that never sleeps
BraveSleep_NoSleep(f) ==
    /\ fpc[f] = "sleep"
    /\ running = f
    /\ fpc' = [fpc EXCEPT ![f] = "grant"]
    /\ UNCHANGED <<dbVars, agentVars, attempt, clock, last_brave_call_time, now, running,
                   ncalls, grants>>

\* variant of lines 76-78 with await asyncio.sleep in the place of
\* time.sleep: when the time asked for has passed the event loop is free
\* to take any flow
BraveSleep_Await(f) ==
    LET elapsed == now[f] - last_brave_call_time
    IN /\ fpc[f] = "sleep"
       /\ running = f
       /\ clock' = IF elapsed < TicksPerSecond
                   THEN clock + (TicksPerSecond - elapsed)
                   ELSE clock
       /\ running' = IF elapsed < TicksPerSecond THEN 0 ELSE running
       /\ fpc' = [fpc EXCEPT ![f] = "grant"]
       /\ UNCHANGED <<dbVars, agentVars, attempt, last_brave_call_time, now, ncalls, grants>>

\* lines 76-78: time.sleep returns when the time asked for has passed, and
\* the flow keeps the event loop meanwhile
BraveSleep(f) ==
    LET elapsed == now[f] - last_brave_call_time
    IN /\ fpc[f] = "sleep"
       /\ running = f
       /\ clock' = IF elapsed < TicksPerSecond
                   THEN clock + (TicksPerSecond - elapsed)
                   ELSE clock
       /\ fpc' = [fpc EXCEPT ![f] = "grant"]
       /\ UNCHANGED <<dbVars, agentVars, attempt, last_brave_call_time, now, running, ncalls,
                      grants>>

\* line 79
BraveGrant(f) ==
    /\ fpc[f] = "grant"
    /\ running = f
    /\ last_brave_call_time' = clock
    /\ grants' = Append(grants, Grant(f))
    /\ fpc' = [fpc EXCEPT ![f] = "request"]
    /\ UNCHANGED <<dbVars, agentVars, attempt, clock, now, running, ncalls>>

\* lines 80-101: the request is sent and brave_search returns
BraveRequest(f) ==
    /\ fpc[f] = "request"
    /\ running = f
    /\ grants' = Append(grants, Request(f))
    /\ now' = [now EXCEPT ![f] = 0]
    /\ ncalls' = [ncalls EXCEPT ![f] = @ + 1]
    /\ fpc' = [fpc EXCEPT ![f] = "await"]
    /\ UNCHANGED <<dbVars, agentVars, attempt, clock, last_brave_call_time, running>>

\* lines 265, 269, 281: the flow awaits and the event loop is free; the
\* flow's next call of sub_agent_fn starts from there
FlowAwait(f) ==
    /\ fpc[f] = "await"
    /\ running = f
    /\ running' = 0
    /\ fpc' = [fpc EXCEPT ![f] = "start"]
    /\ UNCHANGED <<dbVars, agentVars, attempt, clock, last_brave_call_time, now, ncalls,
                   grants>>

FlowStep(f) ==
    \/ Schedule(f)
    \/ FlowStart(f)
    \/ BraveRead(f)
    \/ BraveSleep(f)
    \/ BraveGrant(f)
    \/ BraveRequest(f)
    \/ FlowAwait(f)

NextLimiter ==
    \/ Tick
    \/ \E f \in Flows : FlowStep(f)

(* One caller of brave_search *)
InitCaller == InitLimiter(1)

SpecCaller == InitCaller /\ [][NextLimiter]_vars

(* NumFlows flows on one instance *)
InitFlows == InitLimiter(NumFlows)

SpecFlows == InitFlows /\ [][NextLimiter]_vars

-----------------------------------------------------------------------------
(* ResearchDatabase (src/db.py).  A table is the sequence of its rows in    *)
(* insertion order; the timestamp columns, which take their DEFAULT, are    *)
(* left out of the rows.  str(uuid.uuid4()) is a value no row of the table  *)
(* has yet.  Foreign keys are not enforced by sqlite3.connect.              *)

\* a cursor.fetchone() that found no row
None == [none |-> TRUE]

WorkerTypes == {"introduction"}

\* report_data: the number of words of each section that is a str
ReportData == {<<3, 2>>}

RECURSIVE SumOf(_)
SumOf(ns) == IF ns = <<>> THEN 0 ELSE Head(ns) + SumOf(Tail(ns))

\* SELECT * FROM table WHERE session_id = ?
Select(table, session_id) == SelectSeq(table, LAMBDA row : row.session_id = session_id)

fetchall(rows) == rows
fetchone(rows) == IF rows = <<>> THEN None ELSE Head(rows)

SessionIds == {sessions[i].session_id : i \in 1..Len(sessions)}
QueryIds == {research_queries[i].query_id : i \in 1..Len(research_queries)}
StructureIds == {research_structure[i].structure_id : i \in 1..Len(research_structure)}

InitDb ==
    /\ Blank
    /\ Idle
    /\ urls = <<>>
    /\ contents = <<>>
    /\ pc = "db"

\* a call on the database leaves everything else alone
DbCall ==
    /\ pc = "db"
    /\ UNCHANGED <<agentVars, attempt, limiterVars>>

\* lines 94-104
create_session ==
    /\ DbCall
    /\ Len(sessions) < MaxSessions
    /\ sessions' = Append(sessions, [session_id |-> Len(sessions) + 1, user_id |-> "user",
                                     status |-> "active", metadata |-> None])
    /\ session_data' = NoData
    /\ UNCHANGED <<research_queries, research_structure, worker_results, final_reports>>

\* lines 106-117
save_research_queries ==
    /\ DbCall
    /\ Len(research_queries) < MaxRows
    /\ \E session_id \in SessionIds :
          research_queries' =
              Append(research_queries,
                     [query_id |-> Len(research_queries) + 1, session_id |-> session_id,
                      original_query |-> query, generated_queries |-> <<query>>])
    /\ session_data' = NoData
    /\ UNCHANGED <<sessions, research_structure, worker_results, final_reports>>

\* lines 119-131
save_research_structure ==
    /\ DbCall
    /\ Len(research_structure) < MaxRows
    /\ \E session_id \in SessionIds, query_id \in QueryIds :
          research_structure' =
              Append(research_structure,
                     [structure_id |-> Len(research_structure) + 1, query_id |-> query_id,
                      session_id |-> session_id, structure_data |-> <<query>>])
    /\ session_data' = NoData
    /\ UNCHANGED <<sessions, research_queries, worker_results, final_reports>>

\* lines 133-150
save_worker_result ==
    /\ DbCall
    /\ Len(worker_results) < MaxRows
    /\ \E session_id \in SessionIds, structure_id \in StructureIds,
          worker_type \in WorkerTypes :
          worker_results' =
              Append(worker_results,
                     [result_id |-> Len(worker_results) + 1, structure_id |-> structure_id,
                      session_id |-> session_id, worker_type |-> worker_type,
                      queries |-> <<query>>, compiled_result |-> worker_type])
    /\ session_data' = NoData
    /\ UNCHANGED <<sessions, research_queries, research_structure, final_reports>>

\* lines 152-172
save_final_report ==
    /\ DbCall
    /\ Len(final_reports) < MaxRows
    /\ \E session_id \in SessionIds, structure_id \in StructureIds,
          report_data \in ReportData :
          final_reports' =
              Append(final_reports,
                     [report_id |-> Len(final_reports) + 1, session_id |-> session_id,
                      structure_id |-> structure_id, report_data |-> report_data,
                      word_count |-> SumOf(report_data)])
    /\ session_data' = NoData
    /\ UNCHANGED <<sessions, research_queries, research_structure, worker_results>>

\* lines 175-209
get_session_data ==
    /\ DbCall
    /\ \E session_id \in SessionIds :
          session_data' =
              [session |-> fetchone(Select(sessions, session_id)),
               queries |-> fetchall(Select(research_queries, session_id)),
               structures |-> fetchall(Select(research_structure, session_id)),
               worker_results |-> fetchone(Select(worker_results, session_id)),
               reports |-> fetchall(Select(sessions, session_id))]
    /\ UNCHANGED <<sessions, research_queries, research_structure, worker_results,
                   final_reports>>

NextDb ==
    \/ create_session
    \/ save_research_queries
    \/ save_research_structure
    \/ save_worker_result
    \/ save_final_report
    \/ get_session_data

SpecDb == InitDb /\ [][NextDb]_vars

-----------------------------------------------------------------------------
(* Properties of robust_search, checked under SpecSearch *)

\* the urls of a batch that are strings and are not malformed arXiv
\* abs-page references
Accepted(batch) ==
    SelectSeq(batch, LAMBDA u : u # NonStr /\ ~(ContainsAbs(u) /\ ~ARXIV_VALID_REGEX(u)))

\* the calls whose batch has an accepted url
Fruitful == {k \in 1..Len(calls) : Accepted(calls[k].new_urls) # <<>>}

FirstFruitful == CHOOSE k \in Fruitful : \A j \in Fruitful : k <= j

\* C1: robust_search invokes the providers in the order Brave, arXiv,
\* Semantic Scholar, DuckDuckGo, Google; what it returns is exactly the
\* accepted urls of the first provider that has any, in that provider's
\* order, and no provider after that one is invoked.
C1_FirstFruitfulProviderOnly ==
    /\ \A k \in 1..Len(calls) : calls[k].fn = search_functions[k]
    /\ pc = "returned" =>
          IF Fruitful = {}
          THEN urls = <<>> /\ Len(calls) = Len(search_functions)
          ELSE /\ urls = Accepted(calls[FirstFruitful].new_urls)
               /\ Len(calls) = FirstFruitful

\* C2: a failure inside a provider (a raised error or a malformed payload)
\* never leaves robust_search as an exception; the provider returns an
\* empty sequence, the next provider is invoked, and when every provider
\* yields nothing robust_search returns an empty sequence.
C2_ProviderFailureContained ==
    /\ raised = ""
    /\ \A k \in 1..Len(calls) :
          /\ calls[k].failed => calls[k].new_urls = <<>>
          /\ (\E i \in 1..Len(calls[k].new_urls) : calls[k].new_urls[i] = NonStr)
                => calls[k].new_urls = <<>>
          /\ calls[k].failed /\ k < Len(search_functions)
                => \/ Len(calls) > k
                   \/ pc = "search" /\ fnIdx = k + 1
    /\ pc = "returned" /\ (\A k \in 1..Len(calls) : calls[k].new_urls = <<>>)
          => urls = <<>> /\ Len(calls) = Len(search_functions)

-----------------------------------------------------------------------------
(* Properties of fetch_full_text, checked under Spec *)

\* the whitespace between the words of the text strategy k yields
StrategySeparator(k) == IF k = 2 THEN "\n\n" ELSE "\n"

\* C3: fetch_full_text stops only at the first strategy that yields
\* non-empty text: after a strategy that completes without error but with
\* empty text, the next strategy is attempted.
C3_EmptyTextFallsThrough ==
    pc = "fetched" =>
        \A k \in 1..Len(strategies) :
            strategies[k].outcome = "empty" /\ k < 3 => Len(strategies) > k

\* C4: when strategy 1 returns non-empty text, that text is the result of
\* fetch_full_text and strategies 2 and 3 are not invoked; when strategy 2
\* returns non-empty text, that text is the result and strategy 3 is not
\* invoked.
C4_ShortCircuitOnText ==
    \A k \in 1..Len(strategies) :
        strategies[k].outcome = "text" /\ k < 3 =>
            /\ Len(strategies) = k
            /\ pc \notin {"strategy2", "strategy3"}
            /\ pc = "fetched" =>
                  content = Page(urlIdx, strategies[k].n, StrategySeparator(k))

C4_Witness ==
    /\ pc = "fetched"
    /\ Len(strategies) = 1
    /\ strategies[1].outcome = "text"
    /\ content # <<>>

\* C5: fetch_full_text never raises: an exception in a strategy is caught
\* and the next strategy is attempted, and when all three strategies raise
\* the result is the empty string.
C5_ExtractionNeverRaises ==
    /\ pc \in {"fetch", "strategy2", "strategy3", "fetched"} => raised = ""
    /\ \A k \in 1..Len(strategies) :
          strategies[k].outcome = "exception" =>
              IF k < 3
              THEN \/ Len(strategies) > k
                   \/ pc = (IF k = 1 THEN "strategy2" ELSE "strategy3")
              ELSE pc = "fetched" => content = <<>>

C5_Witness ==
    /\ pc = "fetched"
    /\ Len(strategies) = 3
    /\ \A k \in 1..3 : strategies[k].outcome = "exception"
    /\ content = <<>>

-----------------------------------------------------------------------------
(* Properties of the word budget *)

\* number of words of the first j entries of the ranked list
RECURSIVE RankedWords(_)
RankedWords(j) ==
    IF j = 0 THEN 0 ELSE RankedWords(j - 1) + WordCount(split(ranked[j].doc))

\* length of the longest prefix of the ranked list that fits the budget
LongestPrefix ==
    CHOOSE k \in 0..Len(ranked) :
        /\ RankedWords(k) <= MAX_WORD_LIMIT
        /\ \A j \in (k + 1)..Len(ranked) : RankedWords(j) > MAX_WORD_LIMIT

\* C6 (under SpecContext): the selection of rank_and_select_contexts is
\* exactly the longest prefix of the ranked documents whose cumulative word
\* count does not exceed 9000; no document ranked below the first one that
\* does not fit is included.
C6_GreedyStop ==
    pc = "ranked" =>
        full_context = JoinTexts("\n\n", [i \in 1..LongestPrefix |-> ranked[i].doc])

\* documents of 6000, 4000 and 500 words in rank order: only the first is
\* selected
C6_Witness ==
    /\ pc = "ranked"
    /\ Len(ranked) = 3
    /\ [i \in 1..3 |-> WordCount(split(ranked[i].doc))] = <<6000, 4000, 500>>
    /\ full_context = ranked[1].doc

\* the text has a word of document d
Appears(d, text) == \E i \in 1..Len(text) : text[i].doc = d

\* the text has every word of document d, which has n words, in order
AppearsInFull(d, n, text) ==
    \E i \in 1..Len(split(text)) :
        split(text)[i] = [doc |-> d, lo |-> 1, hi |-> n]

\* C7 (under Spec): the context handed to the text-generation service has
\* at most 9000 words, and every extracted document that appears in it
\* appears in full.
C7_ContextWithinBudget ==
    pc = "truncated" =>
        /\ WordCount(split(safe_context)) <= MAX_WORD_LIMIT
        /\ \A i \in 1..Len(contents) :
              LET d == contents[i][1].doc
              IN Appears(d, safe_context) =>
                    AppearsInFull(d, WordCount(split(contents[i])), safe_context)

\* two documents were extracted that do not fit together, and one is kept
C7_Witness ==
    /\ pc = "truncated"
    /\ Len(contents) = 2
    /\ WordCount(split(contents[1])) + WordCount(split(contents[2])) > MAX_WORD_LIMIT
    /\ safe_context # <<>>

\* C8 (under SpecContext): truncate_context returns its input unchanged
\* whenever the input has at most 9000 words, whatever whitespace
\* separates the words.
C8_UnderBudgetUnchanged ==
    pc = "truncated" /\ WordCount(split(full_context)) <= MAX_WORD_LIMIT
        => safe_context = full_context

\* C9 (under SpecContext): for a text of more than 9000 words
\* truncate_context returns the first 9000 words followed by the
\* truncation marker, and truncating that output again returns it
\* unchanged.
C9_TruncateIdempotent ==
    pc = "truncated again" /\ WordCount(split(full_context)) > MAX_WORD_LIMIT =>
        /\ split(safe_context) =
              SplitFrom(FirstWords(split(full_context), MAX_WORD_LIMIT),
                        <<Run("", TRUNCATED, 1, 1)>>)
        /\ safe_context[Len(safe_context)].doc = TRUNCATED
        /\ \A i \in 1..(Len(safe_context) - 1) : safe_context[i].doc # TRUNCATED
        /\ again_context = safe_context

\* a text of 10000 words was truncated twice
C9_Witness ==
    /\ pc = "truncated again"
    /\ WordCount(split(full_context)) = 10000
    /\ WordCount(split(again_context)) = MAX_WORD_LIMIT + 1

-----------------------------------------------------------------------------
(* Properties of sub_agent_fn, checked under Spec *)

\* C10: when robust_search resolves no url the synthesis call ends at once:
\* its sources are empty, its text names the role and the query and says
\* that no links were found, and nothing was extracted, ranked or
\* generated.
C10_NoLinksEndsAtOnce ==
    pc # "start" /\ urls = <<>> =>
        /\ pc \in {"searched", "done"}
        /\ events = <<"robust_search">>
        /\ pc = "done" =>
              /\ result.sources = <<>>
              /\ result.result = <<name, ": No useful links found for query: ", query>>

C10_Witness ==
    /\ pc = "done"
    /\ urls = <<>>
    /\ result.sources = <<>>

\* C11: when urls were resolved but no extraction produced text, the
\* synthesis call returns the no-content placeholder and its sources are
\* the urls whose extraction was attempted, the first up-to-2 resolved urls.
C11_NoContentCarriesAttempted ==
    pc = "done" /\ urls # <<>> /\ contents = <<>> =>
        /\ result.result = <<name, ": No content scraped for: ", query>>
        /\ result.sources = Attempted(urls)

\* the urls whose call of fetch_full_text returned text, in the order of
\* the calls
RECURSIVE Gathered(_)
Gathered(fs) ==
    IF fs = <<>> THEN <<>>
    ELSE (IF Head(fs).text # <<>> THEN <<Head(fs).url>> ELSE <<>>) \o Gathered(Tail(fs))

\* C12: when the text-generation call fails the synthesis call does not
\* raise: it returns a non-empty text that holds the role name and the
\* failure description, and its sources are the urls gathered during
\* extraction.
C12_GenerationFailureAbsorbed ==
    (\E i \in 1..Len(events) : events[i] = "llm.ainvoke raised e") =>
        /\ pc = "done"
        /\ raised = ""
        /\ result.result # <<>>
        /\ \E i \in 1..Len(result.result) : result.result[i] = name
        /\ \E i \in 1..Len(result.result) : result.result[i] = "e"
        /\ result.sources = Gathered(fetches)

C12_Witness ==
    /\ pc = "done"
    /\ events[Len(events)] = "llm.ainvoke raised e"
    /\ Len(result.sources) = 2

\* C13: in every synthesis result, sources is the subsequence of the first
\* 2 resolved urls whose extraction returned non-empty text, in the order
\* the extractions were attempted, whatever the ranking.
C13_SourcesInExtractionOrder ==
    pc = "done" =>
        /\ Len(fetches) <= 2
        /\ \A i \in 1..Len(fetches) : fetches[i].url = urls[i]
        /\ result.sources = Gathered(fetches)

\* the second url ranks first and the first url's extraction was not the
\* only one; the sources keep the order of the attempts
C13_Witness ==
    /\ pc = "done"
    /\ Len(urls) > 2
    /\ Len(ranked) = 2
    /\ ranked[1].doc = contents[2]
    /\ urls[1] # urls[2]
    /\ result.sources = <<urls[1], urls[2]>>

\* C14: whatever fails among the search providers, the extraction
\* strategies, the embedding service and the text-generation service,
\* sub_agent_fn returns a {result, sources} value and never raises.
C14_NeverRaises ==
    /\ raised = ""
    /\ pc # "raised"

-----------------------------------------------------------------------------
(* Properties of the url filter of robust_search, checked under SpecSearch *)

Malformed(u) == u # NonStr /\ ContainsAbs(u) /\ ~ARXIV_VALID_REGEX(u)

\* what the calls made so far contribute when each batch loses its
\* malformed arXiv references and nothing else
RECURSIVE KeptOf(_)
KeptOf(cs) ==
    IF cs = <<>> THEN <<>>
    ELSE SelectSeq(Head(cs).new_urls, LAMBDA u : u # NonStr /\ ~Malformed(u))
             \o KeptOf(Tail(cs))

\* C16: robust_search never returns a url that holds "arxiv.org/abs/" and
\* fails ARXIV_VALID_REGEX; such a url is dropped on its own, and every
\* other url of the batch of the same provider is kept, in the order of
\* the batch.
C16_MalformedDroppedAlone ==
    /\ \A i \in 1..Len(urls) : ~Malformed(urls[i])
    /\ (\E k \in 1..Len(calls) : \E i \in 1..Len(calls[k].new_urls) :
            Malformed(calls[k].new_urls[i]))
          => urls = KeptOf(calls)

-----------------------------------------------------------------------------
(* Properties of ARXIV_VALID_REGEX, checked under SpecRegex *)

\* url is http(s)://arxiv.org/abs/ followed by four digits, a dot, five
\* digits and an optional "v" with one digit or more, and nothing else
StrictForm(url) ==
    /\ Len(url) >= 12
    /\ SubSeq(url, 1, 12) = <<"h", "A">> \o Symbols("d", 4) \o <<".">> \o Symbols("d", 5)
    /\ LET suffix == SubSeq(url, 13, Len(url))
       IN \/ suffix = <<>>
          \/ /\ Len(suffix) >= 2
             /\ suffix[1] = "v"
             /\ \A i \in 2..Len(suffix) : suffix[i] = "d"

\* C17: the validator accepts a url exactly when it is an arxiv.org
\* abs-page url whose identifier is four digits, a dot, five digits and an
\* optional version suffix: https://arxiv.org/abs/2301.12345v2 is accepted,
\* https://arxiv.org/abs/abcde.12345 is rejected, and so is every url that
\* departs from the form.
C17_ValidatorIsStrict ==
    /\ ARXIV_VALID_REGEX(ArxivGood)
    /\ ~ARXIV_VALID_REGEX(ArxivMalformed)
    /\ pc = "validated" => (events[2] = "match" <=> StrictForm(urls[1]))

-----------------------------------------------------------------------------
(* Properties of the rate limiter, checked under SpecCaller and SpecFlows *)

\* the positions of the grants in the history
GrantIndexes == {i \in 1..Len(grants) : grants[i].kind = "grant"}

\* any two grants are TicksPerSecond ticks apart or more
GrantsSpaced ==
    \A i, j \in GrantIndexes :
        i < j => grants[j].at - grants[i].at >= TicksPerSecond

\* every request sent follows the grant of its own call
RequestsFollowGrants ==
    \A i \in 1..Len(grants) :
        grants[i].kind = "request" =>
            /\ i > 1
            /\ grants[i - 1].kind = "grant"
            /\ grants[i - 1].flow = grants[i].flow
            /\ grants[i - 1].at <= grants[i].at

\* C18: for any sequence of calls of brave_search by one caller, the
\* limiter delays and never fails, the grant times of two consecutive calls
\* are 1.0 second apart or more, and the request of a call is sent only
\* after its grant.
C18_SingleCallerSpacing ==
    /\ raised = ""
    /\ GrantsSpaced
    /\ RequestsFollowGrants
    /\ \A f \in Flows : fpc[f] = "request" =>
          /\ grants # <<>>
          /\ grants[Len(grants)] = [flow |-> f, kind |-> "grant",
                                    at |-> last_brave_call_time]

\* the second call came within the second of the first grant and was
\* delayed
C18_Witness ==
    /\ Flows = {1}
    /\ Len(grants) >= 4
    /\ grants[3].kind = "grant"
    /\ grants[3].at = grants[1].at + TicksPerSecond
    /\ grants[2].at < grants[3].at
    /\ ncalls[1] = MaxCalls

\* C19: when several flows share one instance and interleave only at the
\* await points, no other flow runs between a flow's read of the last call
\* time and its update, and any two requests are granted 1.0 second apart
\* or more.
C19_LimiterAtomicAcrossFlows ==
    /\ \A f \in Flows : fpc[f] \in {"read", "sleep", "grant", "request", "await"}
          => running = f
    /\ \A f \in Flows : fpc[f] \in {"sleep", "grant"} =>
          \A i \in GrantIndexes : grants[i].at <= now[f]
    /\ GrantsSpaced
    /\ RequestsFollowGrants

\* two flows were granted in turn, the second after a delay
C19_Witness ==
    /\ \E i \in GrantIndexes : \E j \in GrantIndexes :
          /\ i < j
          /\ grants[i].flow # grants[j].flow
          /\ grants[j].at = grants[i].at + TicksPerSecond
    /\ \A f \in Flows : ncalls[f] >= 1
    /\ Len(grants) >= 6

-----------------------------------------------------------------------------
(* Properties of search_duckduckgo, checked under SpecDuck *)

\* C20: search_duckduckgo makes at most 3 attempts and always terminates;
\* a delay precedes every attempt, the first included; it returns the
\* result of the first attempt that does not fail and makes no attempt
\* after it, and returns an empty sequence after 3 failed attempts.
C20_BoundedRetries ==
    /\ Len(calls) <= retries
    /\ attempt <= retries
    /\ Len(events) <= 2 * attempt
    /\ pc = "returned" \/ ENABLED NextDuck
    /\ \A i \in 1..Len(events) :
          IF i % 2 = 1 THEN events[i] = "time.sleep" ELSE events[i] = "ddgs.text"
    /\ \A k \in 1..Len(calls) : k < Len(calls) => calls[k].failed
    /\ pc = "returned" =>
          IF calls # <<>> /\ ~calls[Len(calls)].failed
          THEN urls = calls[Len(calls)].new_urls
          ELSE urls = <<>> /\ Len(calls) = retries
    /\ pc # "returned" => \A k \in 1..Len(calls) : calls[k].failed

\* the third attempt is the first that does not fail
C20_Witness ==
    /\ pc = "returned"
    /\ Len(calls) = retries
    /\ ~calls[retries].failed
    /\ urls # <<>>
    /\ events = <<"time.sleep", "ddgs.text", "time.sleep", "ddgs.text",
                  "time.sleep", "ddgs.text">>

-----------------------------------------------------------------------------
(* Properties of the extraction loop of sub_agent_fn, checked under Spec *)

FetchStarts == {i \in 1..Len(events) : events[i] = "fetch_full_text"}
Pauses == {i \in 1..Len(events) : events[i] = "asyncio.sleep(3)"}

\* C21: within one synthesis call the extractions of the first 2 resolved
\* urls are sequential: the second starts only after the first has
\* finished and a pause of 3 seconds has been taken, also when the first
\* returned empty text.
C21_ExtractionsSequential ==
    /\ Cardinality(FetchStarts) <= 2
    /\ Cardinality(FetchStarts) <= Len(fetches) + 1
    /\ Cardinality(Pauses) <= Len(fetches)
    /\ pc \in {"strategy2", "strategy3"} => Cardinality(FetchStarts) = Len(fetches) + 1
    /\ \A i \in FetchStarts :
          (\E j \in FetchStarts : j < i) =>
              /\ events[i - 1] = "asyncio.sleep(3)"
              /\ events[i - 2] = "fetch_full_text"

\* the first extraction returned empty text and the second one ran
C21_Witness ==
    /\ Cardinality(FetchStarts) = 2
    /\ Len(fetches) = 2
    /\ fetches[1].text = <<>>
    /\ fetches[2].text # <<>>
    /\ Cardinality(Pauses) = 2

-----------------------------------------------------------------------------
(* Properties of the ranking: C22 under SpecContext, C24 under Spec *)

\* the place of a document of DocLists in the list it came in
InputIndex(doc) == doc[1].doc

\* C22: rank_and_select_contexts orders the documents by descending score,
\* documents of equal score keep their input order, and the selected
\* documents are joined with a blank line between them in ranked order.
C22_StableDescendingRank ==
    pc = "ranked" =>
        /\ Len(ranked) = Len(contents)
        /\ \A i \in 1..Len(contents) : \E j \in 1..Len(ranked) : ranked[j].doc = contents[i]
        /\ \A j, k \in 1..Len(ranked) :
              j < k =>
                 /\ ranked[j].score >= ranked[k].score
                 /\ ranked[j].score = ranked[k].score
                       => InputIndex(ranked[j].doc) < InputIndex(ranked[k].doc)
        /\ LET words == split(full_context)
           IN /\ Len(words) <= Len(ranked)
              /\ \A i \in 1..Len(words) :
                    words[i] = [doc |-> InputIndex(ranked[i].doc), lo |-> 1,
                                hi |-> WordCount(split(ranked[i].doc))]
        /\ \A i \in 2..Len(full_context) :
              full_context[i].lo = 1 <=> full_context[i].sep = "\n\n"

\* the second document ranks first, the first and third tie and keep their
\* order, and all three are joined
C22_Witness ==
    /\ pc = "ranked"
    /\ Len(ranked) = 3
    /\ [i \in 1..3 |-> ranked[i].score] = <<2, 1, 1>>
    /\ [i \in 1..3 |-> InputIndex(ranked[i].doc)] = <<2, 1, 3>>
    /\ Len(split(full_context)) = 3

\* C24: when the highest-ranked extracted document alone has more than
\* 9000 words, rank_and_select_contexts selects no document, also when
\* documents ranked lower would fit; the text-generation service is
\* invoked with an empty context and the sources of the result still list
\* every url whose extraction returned text.
C24_OversizedFirstEmptiesContext ==
    /\ ranked # <<>>
    /\ WordCount(split(ranked[1].doc)) > MAX_WORD_LIMIT
    /\ pc \in {"ranked", "truncated", "done"}
    => /\ full_context = <<>>
       /\ pc \in {"truncated", "done"} => safe_context = <<>>
       /\ pc = "done" =>
             /\ events[Len(events)] \in {"llm.ainvoke", "llm.ainvoke raised e"}
             /\ result.sources = Gathered(fetches)
             /\ Len(result.sources) = Len(contents)
             /\ result.sources # <<>>

\* a document of more than 9000 words ranks above one that would fit
C24_Witness ==
    /\ pc = "done"
    /\ Len(ranked) = 2
    /\ WordCount(split(ranked[1].doc)) > MAX_WORD_LIMIT
    /\ WordCount(split(ranked[2].doc)) <= MAX_WORD_LIMIT
    /\ safe_context = <<>>
    /\ events[Len(events)] = "llm.ainvoke"
    /\ Len(result.sources) = 2

-----------------------------------------------------------------------------
(* Properties of ResearchDatabase, checked under SpecDb *)

\* the rows a list of rows holds
RowsOf(rows) == {rows[i] : i \in 1..Len(rows)}

\* C23: after any sequence of create_session, save_research_queries,
\* save_research_structure, save_worker_result and save_final_report,
\* get_session_data(session_id) returns all the data of the session: its
\* session row, and every query, structure, worker result and final report
\* saved under session_id, and nothing saved under another session.
C23_SessionDataComplete ==
    session_data # NoData =>
        LET session_id == session_data.session.session_id
        IN /\ RowsOf(Select(sessions, session_id)) = {session_data.session}
           /\ RowsOf(session_data.queries) = RowsOf(Select(research_queries, session_id))
           /\ RowsOf(session_data.structures)
                 = RowsOf(Select(research_structure, session_id))
           /\ {session_data.worker_results} \ {None}
                 = RowsOf(Select(worker_results, session_id))
           /\ RowsOf(session_data.reports) = RowsOf(Select(final_reports, session_id))

====
